---- MODULE Spec2Model ----
(***************************************************************************)
(* Model of ohos-deviceinfo (src/src/lib.rs): the String Bridge            *)
(* convert_to_rust_str, the device-type classifier, the clamped numeric    *)
(* conversion and the 27 accessors, called by concurrent callers over      *)
(* native values that are fixed when the process starts.                   *)
(*                                                                         *)
(* Text is a sequence of bytes (0..255).  A native string query returns    *)
(* either the null pointer or a pointer to a buffer: the bytes in memory   *)
(* from the pointer on, which hold a 0 terminator somewhere (the safety    *)
(* precondition of convert_to_rust_str) and may hold more bytes after it.  *)
(***************************************************************************)
EXTENDS Integers, Sequences, FiniteSets, TLC

VARIABLES
    target_env,   \* the platform the crate is built for: "ohos" or "other"
    native,       \* native query name -> the raw value that query returns
    pc,           \* caller -> "idle" | "queried" | "unresolved"
    acc,          \* caller -> the accessor it is in ("-" when idle)
    raw,          \* caller -> its local `raw` (the native query's return value)
    log,          \* caller -> the native queries its current call has made
    completed,    \* the calls that returned: [acc, val, raw, log]
    remaining     \* calls the run may still start (bounds the exploration)

vars == <<target_env, native, pc, acc, raw, log, completed, remaining>>

----------------------------------------------------------------------------
(* Bounds of the exploration *)

MaxBuf == 2       \* bytes before the final terminator of a generated buffer
MaxCalls == 2     \* accessor calls of one run of the concurrent specification
NumThreads == 2   \* concurrent callers

Threads == 1..NumThreads

----------------------------------------------------------------------------
(* Values *)

I32Min == -2147483647 - 1
I32Max == 2147483647

Null == <<"null">>
Ptr(buf) == <<"ptr", buf>>
I32(v) == <<"i32", v>>
Missing == <<"missing">>

None == <<"None">>
Some(s) == <<"Some", s>>
U32(n) == <<"u32", n>>

Phone == <<"Phone">>
Wearable == <<"Wearable">>
LiteWearable == <<"LiteWearable">>
Tablet == <<"Tablet">>
Tv == <<"Tv">>
Car == <<"Car">>
SmartVision == <<"SmartVision">>
Other(s) == <<"Other", s>>
Unknown == <<"Unknown">>

\* The string literals of the match in get_device_type, as bytes.
S_phone == <<112, 104, 111, 110, 101>>
S_default == <<100, 101, 102, 97, 117, 108, 116>>
S_wearable == <<119, 101, 97, 114, 97, 98, 108, 101>>
S_liteWearable == <<108, 105, 116, 101, 87, 101, 97, 114, 97, 98, 108, 101>>
S_tablet == <<116, 97, 98, 108, 101, 116>>
S_tv == <<116, 118>>
S_car == <<99, 97, 114>>
S_smartVision == <<115, 109, 97, 114, 116, 86, 105, 115, 105, 111, 110>>

----------------------------------------------------------------------------
(* The String Bridge *)

\* Variant: the whole buffer but its last byte, whatever terminators it holds.
from_ptr_whole(buf) == SubSeq(buf, 1, Len(buf) - 1)

\* CStr::from_ptr: the bytes from the pointer up to the first 0, without it.
RECURSIVE from_ptr(_)
from_ptr(buf) ==
    IF buf = <<>> \/ Head(buf) = 0 THEN <<>>
    ELSE <<Head(buf)>> \o from_ptr(Tail(buf))

IsCont(b) == b >= 128 /\ b <= 191

\* The number of bytes of the UTF-8 sequence that starts s, 0 when s does not
\* start with a well-formed one (core::str::from_utf8's validation).
Utf8Width(s) ==
    LET b == s[1]
        n == Len(s)
    IN  IF b < 128 THEN 1
        ELSE IF b >= 194 /\ b <= 223
            THEN IF n >= 2 /\ IsCont(s[2]) THEN 2 ELSE 0
        ELSE IF b >= 224 /\ b <= 239
            THEN IF n >= 3 /\ IsCont(s[2]) /\ IsCont(s[3])
                    /\ (b = 224 => s[2] >= 160)
                    /\ (b = 237 => s[2] <= 159)
                 THEN 3 ELSE 0
        ELSE IF b >= 240 /\ b <= 244
            THEN IF n >= 4 /\ IsCont(s[2]) /\ IsCont(s[3]) /\ IsCont(s[4])
                    /\ (b = 240 => s[2] >= 144)
                    /\ (b = 244 => s[2] <= 143)
                 THEN 4 ELSE 0
        ELSE 0

RECURSIVE Utf8Valid(_)
Utf8Valid(s) ==
    IF s = <<>> THEN TRUE
    ELSE LET w == Utf8Width(s)
         IN  IF w = 0 THEN FALSE ELSE Utf8Valid(SubSeq(s, w + 1, Len(s)))

\* Variant: to_str().unwrap(), which panics on bytes that are not UTF-8.
to_str_unwrap(bytes) ==
    IF Utf8Valid(bytes) THEN Some(bytes) ELSE <<"panic", bytes>>

\* CStr::to_str().ok(): Some of the same bytes when they are valid UTF-8.
to_str_ok(bytes) == IF Utf8Valid(bytes) THEN Some(bytes) ELSE None

\* Variant: the filter is left out.
filter_keep_empty(opt) == opt

\* Option::filter(|s| !s.is_empty())
filter_not_empty(opt) ==
    IF opt # None /\ opt[2] # <<>> THEN opt ELSE None

convert_to_rust_str(static_c_str) ==
    IF static_c_str = Null THEN None
    ELSE filter_not_empty(to_str_ok(from_ptr(static_c_str[2])))

----------------------------------------------------------------------------
(* The classifier and the numeric conversion *)

\* Variant: the match without the "default" alias.
get_device_type_no_alias(r) ==
    LET device_type == convert_to_rust_str(r)
    IN  IF device_type = None THEN Unknown
        ELSE LET s == device_type[2]
             IN  CASE s = S_phone -> Phone
                   [] s = S_wearable -> Wearable
                   [] s = S_liteWearable -> LiteWearable
                   [] s = S_tablet -> Tablet
                   [] s = S_tv -> Tv
                   [] s = S_car -> Car
                   [] s = S_smartVision -> SmartVision
                   [] OTHER -> Other(s)

\* The body of get_device_type after the native query.
get_device_type(r) ==
    LET device_type == convert_to_rust_str(r)
    IN  IF device_type = None THEN Unknown
        ELSE LET s == device_type[2]
             IN  CASE s = S_phone \/ s = S_default -> Phone
                   [] s = S_wearable -> Wearable
                   [] s = S_liteWearable -> LiteWearable
                   [] s = S_tablet -> Tablet
                   [] s = S_tv -> Tv
                   [] s = S_car -> Car
                   [] s = S_smartVision -> SmartVision
                   [] OTHER -> Other(s)

\* Variant: a conversion that never fails and keeps a negative value.
try_into_unchecked(v) == <<"Ok", v>>

\* u32::try_from(i32): Err for a negative value.
try_into(v) == IF v < 0 THEN <<"Err">> ELSE <<"Ok", v>>

\* Result::unwrap_or_default for u32: the default is 0.
unwrap_or_default(res) == IF res[1] = "Ok" THEN res[2] ELSE 0

\* raw.try_into().unwrap_or_default()
to_u32(r) == U32(unwrap_or_default(try_into(r[2])))

----------------------------------------------------------------------------
(* The accessors *)

NumericAccessors ==
    {"get_sdk_api_version", "get_first_api_version", "DistributionInfo::api_version"}

StringAccessors ==
    {"get_device_manufacturer", "get_brand", "get_market_name",
     "get_product_series", "get_product_model", "get_software_model",
     "get_hardware_model", "get_bootloader_version", "get_abi_list",
     "get_security_patch_tag", "get_display_version", "get_incremental_version",
     "get_os_release_type", "get_os_full_name", "get_version_id",
     "get_build_type", "get_build_user", "get_build_host", "get_build_time",
     "get_build_hash", "DistributionInfo::name", "DistributionInfo::version",
     "DistributionInfo::get_distribution_os_release_type"}

Accessors == {"get_device_type"} \cup StringAccessors \cup NumericAccessors

DistributionAccessors ==
    {"DistributionInfo::name", "DistributionInfo::version",
     "DistributionInfo::api_version",
     "DistributionInfo::get_distribution_os_release_type"}

\* The native query each free function calls.
OsQuery(a) ==
    CASE a = "get_device_type" -> "OH_GetDeviceType"
      [] a = "get_device_manufacturer" -> "OH_GetManufacture"
      [] a = "get_brand" -> "OH_GetBrand"
      [] a = "get_market_name" -> "OH_GetMarketName"
      [] a = "get_product_series" -> "OH_GetProductSeries"
      [] a = "get_product_model" -> "OH_GetProductModel"
      [] a = "get_software_model" -> "OH_GetSoftwareModel"
      [] a = "get_hardware_model" -> "OH_GetHardwareModel"
      [] a = "get_bootloader_version" -> "OH_GetBootloaderVersion"
      [] a = "get_abi_list" -> "OH_GetAbiList"
      [] a = "get_security_patch_tag" -> "OH_GetSecurityPatchTag"
      [] a = "get_display_version" -> "OH_GetDisplayVersion"
      [] a = "get_incremental_version" -> "OH_GetIncrementalVersion"
      [] a = "get_os_release_type" -> "OH_GetOsReleaseType"
      [] a = "get_os_full_name" -> "OH_GetOSFullName"
      [] a = "get_sdk_api_version" -> "OH_GetSdkApiVersion"
      [] a = "get_first_api_version" -> "OH_GetFirstApiVersion"
      [] a = "get_version_id" -> "OH_GetVersionId"
      [] a = "get_build_type" -> "OH_GetBuildType"
      [] a = "get_build_user" -> "OH_GetBuildUser"
      [] a = "get_build_host" -> "OH_GetBuildHost"
      [] a = "get_build_time" -> "OH_GetBuildTime"
      [] a = "get_build_hash" -> "OH_GetBuildRootHash"

\* The native query each associated function of DistributionInfo calls.
DistributionQuery(a) ==
    CASE a = "DistributionInfo::name" -> "OH_GetDistributionOSName"
      [] a = "DistributionInfo::version" -> "OH_GetDistributionOSVersion"
      [] a = "DistributionInfo::api_version" -> "OH_GetDistributionOSApiVersion"
      [] a = "DistributionInfo::get_distribution_os_release_type"
            -> "OH_GetDistributionOSReleaseType"

\* Variant: DistributionInfo::version() reads the base OS query itself.
NativeQuery_base_version(a) ==
    IF a = "DistributionInfo::version" THEN OsQuery("get_os_full_name")
    ELSE IF a \in DistributionAccessors THEN DistributionQuery(a)
    ELSE OsQuery(a)

\* The one native query an accessor calls.
NativeQuery(a) ==
    IF a \in DistributionAccessors THEN DistributionQuery(a) ELSE OsQuery(a)

\* Variant: the DistributionInfo bodies drift from the base ones: version()
\* without the non-empty filter, api_version() without the sign check.
AccessorBody_drift(a, r) ==
    CASE a = "get_device_type" -> get_device_type(r)
      [] a = "DistributionInfo::api_version" -> U32(r[2])
      [] a \in NumericAccessors -> to_u32(r)
      [] a = "DistributionInfo::version" ->
            IF r = Null THEN None ELSE to_str_ok(from_ptr(r[2]))
      [] OTHER -> convert_to_rust_str(r)

\* What an accessor does with the value its native query returned.
AccessorBody(a, r) ==
    CASE a = "get_device_type" -> get_device_type(r)
      [] a \in NumericAccessors -> to_u32(r)
      [] OTHER -> convert_to_rust_str(r)

\* Variant: the crate is not gated.
Compiled_always == TRUE

\* #![cfg(target_env = "ohos")]: the crate's items exist on OpenHarmony only.
Compiled == target_env = "ohos"

----------------------------------------------------------------------------
(* The native side: what the queries of ohos_deviceinfo_sys can return *)

\* The native queries, in the order the accessors of lib.rs call them.
QueryOrder ==
    <<"OH_GetDeviceType", "OH_GetManufacture", "OH_GetBrand", "OH_GetMarketName",
      "OH_GetProductSeries", "OH_GetProductModel", "OH_GetSoftwareModel",
      "OH_GetHardwareModel", "OH_GetBootloaderVersion", "OH_GetAbiList",
      "OH_GetSecurityPatchTag", "OH_GetDisplayVersion", "OH_GetIncrementalVersion",
      "OH_GetOsReleaseType", "OH_GetOSFullName", "OH_GetSdkApiVersion",
      "OH_GetFirstApiVersion", "OH_GetVersionId", "OH_GetBuildType",
      "OH_GetBuildUser", "OH_GetBuildHost", "OH_GetBuildTime",
      "OH_GetBuildRootHash", "OH_GetDistributionOSName",
      "OH_GetDistributionOSVersion", "OH_GetDistributionOSApiVersion",
      "OH_GetDistributionOSReleaseType">>

Queries == {QueryOrder[i] : i \in 1..Len(QueryOrder)}

\* The queries that return an integer; the others return a C string pointer.
NumericQueries ==
    {"OH_GetSdkApiVersion", "OH_GetFirstApiVersion",
     "OH_GetDistributionOSApiVersion"}

StringQueries == Queries \ NumericQueries

QueryIndex(q) == CHOOSE i \in 1..Len(QueryOrder) : QueryOrder[i] = q

\* The bytes of generated buffers: the terminator, "A", the two bytes of
\* U+00E9 (0xC3 0xA9) and 0xFF, which no UTF-8 text holds.
ByteAlphabet == {0, 65, 195, 169, 255}

\* Every buffer of at most MaxBuf bytes followed by a terminator; a 0 among
\* the bytes ends the C string early and leaves bytes behind it.
GenBuffers ==
    {s \o <<0>> : s \in UNION {[1..n -> ByteAlphabet] : n \in 0..MaxBuf}}

\* Device-type names of the table, case variants and unknown names, text with
\* surrounding blanks, and well- and ill-formed multi-byte sequences.
NamedTexts ==
    {S_phone, S_default, S_wearable, S_liteWearable, S_tablet, S_tv, S_car,
     S_smartVision,
     <<80, 104, 111, 110, 101>>,                            \* "Phone"
     <<84, 86>>,                                            \* "TV"
     <<115, 109, 97, 114, 116, 87, 97, 116, 99, 104>>,      \* "smartWatch"
     <<32, 116, 118, 32>>,                                  \* " tv "
     <<226, 130, 172>>,                                     \* U+20AC
     <<226, 130>>,                                          \* U+20AC cut short
     <<237, 160, 128>>,                                     \* a surrogate
     <<192, 128>>,                                          \* overlong NUL
     <<240, 159, 152, 128>>,                                \* U+1F600
     <<245, 128, 128, 128>>}                                \* above U+10FFFF

RawStrings == {Null} \cup {Ptr(b) : b \in GenBuffers}
                     \cup {Ptr(s \o <<0>>) : s \in NamedTexts}

RawInts == {I32Min, -5, -1, 0, 42, I32Max}

\* Every string query returns r and every integer query returns v.
UniformNative(r, v) ==
    [q \in Queries |-> IF q \in NumericQueries THEN I32(v) ELSE r]

\* The base OS query whose value the native layer returns for a distribution
\* query when the vendor customised nothing.
BaseQuery(q) ==
    CASE q = "OH_GetDistributionOSVersion" -> "OH_GetOSFullName"
      [] q = "OH_GetDistributionOSApiVersion" -> "OH_GetSdkApiVersion"
      [] q = "OH_GetDistributionOSReleaseType" -> "OH_GetOsReleaseType"
      [] OTHER -> q

\* A provisioned device: every query has a value of its own (kind "text"), or
\* the string queries return the empty string ("empty"), or the integer
\* queries report negative sentinels ("negative"); without a vendor
\* customisation the distribution queries mirror the base OS queries.
OwnValue(q, kind) ==
    IF q \in NumericQueries
    THEN I32(IF kind = "negative" THEN 0 - (10 + QueryIndex(q))
                                  ELSE 10 + QueryIndex(q))
    ELSE IF kind = "empty" THEN Ptr(<<0>>)
         ELSE Ptr(<<64 + QueryIndex(q), 0>>)

DeviceKinds == {"text", "empty", "negative"}

Provisioned(customised, kind) ==
    [q \in Queries |->
        OwnValue(IF customised THEN q ELSE BaseQuery(q), kind)]

----------------------------------------------------------------------------
(* The state machine *)

Unset == <<"unset">>

Idle ==
    /\ pc = [t \in Threads |-> "idle"]
    /\ acc = [t \in Threads |-> "-"]
    /\ raw = [t \in Threads |-> Unset]
    /\ log = [t \in Threads |-> <<>>]
    /\ completed = {}

\* A platform without the native facility: there are no native queries.
InitOther ==
    /\ target_env = "other"
    /\ native = [q \in Queries |-> Missing]

\* A provisioned device and callers that make MaxCalls calls between them.
Init ==
    /\ \/ /\ target_env = "ohos"
          /\ \E c \in BOOLEAN, k \in DeviceKinds : native = Provisioned(c, k)
       \/ InitOther
    /\ Idle
    /\ remaining = MaxCalls

\* Any value of the native queries, and one call.
InitBridge ==
    /\ \/ /\ target_env = "ohos"
          /\ \E r \in RawStrings, v \in RawInts : native = UniformNative(r, v)
       \/ InitOther
    /\ Idle
    /\ remaining = 1

\* Variant: the native query hands its value out once and has none afterwards.
CallNative_consume(t, a) ==
    /\ Compiled
    /\ pc[t] = "idle"
    /\ remaining > 0
    /\ pc' = [pc EXCEPT ![t] = "queried"]
    /\ acc' = [acc EXCEPT ![t] = a]
    /\ raw' = [raw EXCEPT ![t] = native[NativeQuery(a)]]
    /\ log' = [log EXCEPT ![t] = Append(log[t], NativeQuery(a))]
    /\ remaining' = remaining - 1
    /\ native' = [native EXCEPT ![NativeQuery(a)] =
                    IF NativeQuery(a) \in NumericQueries THEN I32(0) ELSE Null]
    /\ UNCHANGED <<target_env, completed>>

\* Variant: raw is one static slot that all callers share.
CallNative_shared(t, a) ==
    /\ Compiled
    /\ pc[t] = "idle"
    /\ remaining > 0
    /\ pc' = [pc EXCEPT ![t] = "queried"]
    /\ acc' = [acc EXCEPT ![t] = a]
    /\ raw' = [u \in Threads |-> native[NativeQuery(a)]]
    /\ log' = [log EXCEPT ![t] = Append(log[t], NativeQuery(a))]
    /\ remaining' = remaining - 1
    /\ UNCHANGED <<target_env, native, completed>>

\* The first statement of every accessor: let raw = unsafe { OH_...() }.
CallNative(t, a) ==
    /\ Compiled
    /\ pc[t] = "idle"
    /\ remaining > 0
    /\ pc' = [pc EXCEPT ![t] = "queried"]
    /\ acc' = [acc EXCEPT ![t] = a]
    /\ raw' = [raw EXCEPT ![t] = native[NativeQuery(a)]]
    /\ log' = [log EXCEPT ![t] = Append(log[t], NativeQuery(a))]
    /\ remaining' = remaining - 1
    /\ UNCHANGED <<target_env, native, completed>>

\* The rest of the accessor: convert the local raw and return the value.
Return(t) ==
    /\ pc[t] = "queried"
    /\ completed' = completed \cup
          {[acc |-> acc[t], val |-> AccessorBody(acc[t], raw[t]),
            raw |-> raw[t], log |-> log[t]]}
    /\ pc' = [pc EXCEPT ![t] = "idle"]
    /\ acc' = [acc EXCEPT ![t] = "-"]
    /\ raw' = [raw EXCEPT ![t] = Unset]
    /\ log' = [log EXCEPT ![t] = <<>>]
    /\ UNCHANGED <<target_env, native, remaining>>

\* A use of an accessor where the crate is empty: the name does not resolve,
\* the caller does not build, nothing runs and nothing is returned.
Unresolved(t, a) ==
    /\ ~Compiled
    /\ pc[t] = "idle"
    /\ remaining > 0
    /\ pc' = [pc EXCEPT ![t] = "unresolved"]
    /\ acc' = [acc EXCEPT ![t] = a]
    /\ remaining' = remaining - 1
    /\ UNCHANGED <<target_env, native, raw, log, completed>>

Next ==
    \E t \in Threads :
        \/ \E a \in Accessors : CallNative(t, a)
        \/ Return(t)
        \/ \E a \in Accessors : Unresolved(t, a)

Spec == Init /\ [][Next]_vars

SpecBridge == InitBridge /\ [][Next]_vars

----------------------------------------------------------------------------
(* Vocabulary of the properties: text as the Unicode standard defines it,  *)
(* independently of the byte-range validation above.                       *)

\* The C string a buffer holds: its bytes before the first terminator.
CStringOf(buf) ==
    LET k == CHOOSE i \in 1..Len(buf) :
                 buf[i] = 0 /\ \A j \in 1..(i - 1) : buf[j] # 0
    IN  SubSeq(buf, 1, k - 1)

\* u is the UTF-8 encoding of one Unicode scalar value: the shortest encoding
\* of a code point up to U+10FFFF that is no surrogate.
EncodesScalar(u) ==
    LET n == Len(u)
        cp == CASE n = 1 -> u[1]
                [] n = 2 -> (u[1] - 192) * 64 + (u[2] - 128)
                [] n = 3 -> (u[1] - 224) * 4096 + (u[2] - 128) * 64 + (u[3] - 128)
                [] n = 4 -> (u[1] - 240) * 262144 + (u[2] - 128) * 4096
                            + (u[3] - 128) * 64 + (u[4] - 128)
                [] OTHER -> 0 - 1
        lo == CASE n = 1 -> 0 [] n = 2 -> 128 [] n = 3 -> 2048 [] OTHER -> 65536
        lead == CASE n = 1 -> 0 [] n = 2 -> 192 [] n = 3 -> 224 [] OTHER -> 240
        span == CASE n = 1 -> 128 [] n = 2 -> 32 [] n = 3 -> 16 [] OTHER -> 8
    IN  /\ n \in 1..4
        /\ u[1] >= lead /\ u[1] < lead + span
        /\ cp >= lo /\ cp <= 1114111
        /\ ~(cp >= 55296 /\ cp <= 57343)

\* s is UTF-8 text: cut before every byte that is no continuation byte, it
\* falls into encodings of scalar values.
WellFormedText(s) ==
    LET starts == {i \in 1..Len(s) : s[i] \div 64 # 2}
        stop(i) == IF \E j \in starts : j > i
                   THEN (CHOOSE j \in starts :
                            j > i /\ \A m \in starts : m > i => m >= j) - 1
                   ELSE Len(s)
    IN  s = <<>> \/ (1 \in starts
                     /\ \A i \in starts : EncodesScalar(SubSeq(s, i, stop(i))))

\* The three cases in which a native string value carries no information.
IsNullCase(r) == r = Null
IsUndecodableCase(r) == r # Null /\ ~WellFormedText(CStringOf(r[2]))
IsEmptyCase(r) == r # Null /\ CStringOf(r[2]) = <<>>
IsTextCase(r) == ~IsNullCase(r) /\ ~IsUndecodableCase(r) /\ ~IsEmptyCase(r)

\* The classification table of the specification.
DeviceTypeTable ==
    {<<S_phone, Phone>>, <<S_default, Phone>>, <<S_wearable, Wearable>>,
     <<S_liteWearable, LiteWearable>>, <<S_tablet, Tablet>>, <<S_tv, Tv>>,
     <<S_car, Car>>, <<S_smartVision, SmartVision>>}

Classified(r) ==
    IF ~IsTextCase(r) THEN Unknown
    ELSE LET s == CStringOf(r[2])
         IN  IF \E e \in DeviceTypeTable : e[1] = s
             THEN (CHOOSE e \in DeviceTypeTable : e[1] = s)[2]
             ELSE Other(s)

CompletedOf(as) == {x \in completed : x.acc \in as}

----------------------------------------------------------------------------
(* Properties *)

\* C1: every text value handed to a caller is non-empty: whatever the native
\* queries return, no accessor returns Some("") and get_device_type() never
\* returns Other("").
C1_NoEmptyText ==
    \A x \in completed :
        /\ x.val # Some(<<>>)
        /\ x.val # Other(<<>>)
        /\ x.val[1] \in {"Some", "Other"} => Len(x.val[2]) > 0

\* C1 witness: an accessor and get_device_type() returned for a native value
\* that is the empty string.
C1_Witness ==
    \E x \in completed :
        /\ x.acc \in StringAccessors \cup {"get_device_type"}
        /\ x.raw # Null
        /\ CStringOf(x.raw[2]) = <<>>

\* C2: a string accessor returns None, and nothing else (no fault), in each
\* of the three cases null pointer, undecodable bytes and empty text, so the
\* caller cannot tell the three apart.
C2_AbsentCases ==
    \A x \in CompletedOf(StringAccessors) :
        /\ x.val = None \/ x.val[1] = "Some"
        /\ IsNullCase(x.raw) => x.val = None
        /\ IsUndecodableCase(x.raw) => x.val = None
        /\ IsEmptyCase(x.raw) => x.val = None

\* C2 witness: a string accessor returned None for bytes that are not UTF-8.
C2_Witness ==
    \E x \in CompletedOf(StringAccessors) :
        IsUndecodableCase(x.raw) /\ ~IsEmptyCase(x.raw) /\ x.val = None

\* C3: for a non-null pointer to valid non-empty text a string accessor
\* returns Some of exactly the bytes before the first terminator, and every
\* string accessor returns what the bridge returns for its query's pointer.
C3_ExactText ==
    \A x \in CompletedOf(StringAccessors) :
        /\ IsTextCase(x.raw) => x.val = Some(CStringOf(x.raw[2]))
        /\ x.val = convert_to_rust_str(native[x.log[1]])

\* C3 witness: an accessor returned the text of a buffer that holds more
\* bytes behind its first terminator.
C3_Witness ==
    \E x \in CompletedOf(StringAccessors) :
        /\ IsTextCase(x.raw)
        /\ Len(x.raw[2]) > Len(CStringOf(x.raw[2])) + 1
        /\ x.val = Some(CStringOf(x.raw[2]))

\* C4: get_device_type() follows the fixed table case-sensitively: Unknown
\* for an absent value, the table's variant for a table string ("phone" and
\* "default" both Phone), Other(X) with X unchanged for any other text X; so
\* Other never carries a string of the table.
C4_Classification ==
    \A x \in CompletedOf({"get_device_type"}) :
        /\ x.val = Classified(x.raw)
        /\ x.val[1] = "Other" => \A e \in DeviceTypeTable : e[1] # x.val[2]

\* C4 witness: the case variant "Phone" was classified as Other("Phone").
C4_Witness ==
    \E x \in CompletedOf({"get_device_type"}) :
        x.val = Other(<<80, 104, 111, 110, 101>>)

\* C5: for every 32-bit signed value v of the native query the three numeric
\* accessors return 0 when v is negative and v otherwise; the result is a
\* number in 0..2^31-1 (no wrap, no fault).
C5_Clamp ==
    \A x \in CompletedOf(NumericAccessors) :
        LET v == x.raw[2]
        IN  /\ x.val = U32(IF v < 0 THEN 0 ELSE v)
            /\ x.val[2] \in 0..I32Max

\* C5 witness: DistributionInfo::api_version() returned 0 for the minimum
\* 32-bit value.
C5_Witness ==
    \E x \in completed :
        /\ x.acc = "DistributionInfo::api_version"
        /\ x.raw = I32(I32Min)
        /\ x.val = U32(0)

\* C6: repeated calls of an accessor return identical results: all the calls
\* of one accessor that have returned so far returned the same value.
C6_Idempotent ==
    \A x, y \in completed : x.acc = y.acc => x.val = y.val

\* C6 witness: every call of the run was of one and the same accessor, at
\* least two of them, and all have returned with one result.
C6_Witness ==
    /\ Compiled
    /\ remaining = 0
    /\ MaxCalls >= 2
    /\ \A t \in Threads : pc[t] = "idle"
    /\ Cardinality(completed) = 1

\* C7: concurrent callers need no coordination: every call returned what the
\* accessor returns when run alone, the value a caller holds in flight is the
\* one its own query returned whatever the other callers do, a call in flight
\* can always return and an idle caller can always start a call.
C7_Concurrent ==
    /\ \A x \in completed :
           x.val = AccessorBody(x.acc, native[NativeQuery(x.acc)])
    /\ \A t \in Threads :
           /\ pc[t] = "queried" =>
                 /\ raw[t] = native[NativeQuery(acc[t])]
                 /\ ENABLED Return(t)
           /\ (pc[t] = "idle" /\ Compiled /\ remaining > 0) =>
                 ENABLED (\E a \in Accessors : CallNative(t, a))

\* C7 witness: two callers are inside different accessors at the same time.
C7_Witness ==
    \E t, u \in Threads :
        /\ t # u
        /\ pc[t] = "queried" /\ pc[u] = "queried"
        /\ acc[t] # acc[u]
        /\ raw[t] # raw[u]

\* C8 as stated: on a platform without the native facility every use of an
\* accessor yields absent, Unknown or zero, with no build or runtime fault.
C8_Original ==
    target_env # "ohos" =>
        /\ \A t \in Threads : pc[t] # "unresolved"
        /\ \A x \in completed : x.val \in {None, Unknown, U32(0)}

\* C8 as amended: on a platform without the native facility the crate is
\* empty: no accessor runs, none makes a native query and none returns a
\* value; a use of an accessor does not resolve.
C8_EmptyCrate ==
    target_env # "ohos" =>
        /\ completed = {}
        /\ \A t \in Threads :
              /\ pc[t] \in {"idle", "unresolved"}
              /\ raw[t] = Unset
              /\ log[t] = <<>>

\* C8 witness: on the other platform a caller tried to use an accessor.
C8_Witness ==
    /\ target_env = "other"
    /\ \E t \in Threads : pc[t] = "unresolved" /\ acc[t] \in Accessors

\* The DistributionInfo accessors that mirror a base OS accessor.
BaseAccessor(a) ==
    CASE a = "DistributionInfo::version" -> "get_os_full_name"
      [] a = "DistributionInfo::api_version" -> "get_sdk_api_version"
      [] a = "DistributionInfo::get_distribution_os_release_type"
            -> "get_os_release_type"

\* C9: whenever the native distribution query returned the same raw value as
\* the corresponding base OS query, DistributionInfo::version(), api_version()
\* and get_distribution_os_release_type() return what get_os_full_name(),
\* get_sdk_api_version() and get_os_release_type() return.
C9_MirrorsBase ==
    \A x, y \in completed :
        (/\ x.acc \in DistributionAccessors \ {"DistributionInfo::name"}
         /\ y.acc = BaseAccessor(x.acc)
         /\ x.raw = y.raw) => x.val = y.val

\* C9 witness: DistributionInfo::version() and get_os_full_name() both
\* returned for one raw value that is the empty string.
C9_Witness ==
    \E x, y \in completed :
        /\ x.acc = "DistributionInfo::version"
        /\ y.acc = "get_os_full_name"
        /\ x.raw = y.raw
        /\ x.raw = Ptr(<<0>>)
        /\ x.val = y.val

DistributionQueries ==
    {"OH_GetDistributionOSName", "OH_GetDistributionOSVersion",
     "OH_GetDistributionOSApiVersion", "OH_GetDistributionOSReleaseType"}

\* C10: every accessor call makes exactly one native query, its own (no two
\* accessors share one, and a DistributionInfo accessor makes a distribution
\* query, never a base OS query), its result is computed from that query's
\* value alone, and the native values stay what the calls saw.
C10_OneQuery ==
    /\ \A t \in Threads : Len(log[t]) = (IF pc[t] = "queried" THEN 1 ELSE 0)
    /\ \A x \in completed :
           /\ Len(x.log) = 1
           /\ x.log[1] \in DistributionQueries <=> x.acc \in DistributionAccessors
           /\ x.raw = native[x.log[1]]
           /\ x.val = AccessorBody(x.acc, x.raw)
    /\ \A x, y \in completed : x.acc # y.acc => x.log # y.log

\* C10 witness: DistributionInfo::version() and get_os_full_name() returned
\* different values on a device whose vendor customised the version.
C10_Witness ==
    \E x, y \in completed :
        /\ x.acc = "DistributionInfo::version"
        /\ y.acc = "get_os_full_name"
        /\ x.raw # y.raw
        /\ x.val # y.val

====
